---- MODULE Spec2Model ----
(***************************************************************************)
(* Model of the speed-test engine of lib/speedtest.ts (src/unnamed/        *)
(* part_000): the retry wrapper withRetry, the probes measureLatency,      *)
(* measureDownloadForSize and measureUploadForSize, and the orchestrator   *)
(* runSpeedTest.                                                           *)
(*                                                                         *)
(* One run of runSpeedTest is one behaviour.  An action is what the run    *)
(* does between two suspensions: it starts when an awaited promise         *)
(* settles (a fetch, a body read, a backoff timer) and runs all the        *)
(* synchronous code up to the next await, the return or the throw.  The    *)
(* abort of the run's AbortSignal is an action of the environment.         *)
(*                                                                         *)
(* Numbers: the code computes in IEEE doubles; the model computes in       *)
(* exact rationals [num, den] (normalised, den > 0).  Durations are drawn  *)
(* from small sets of whole milliseconds.                                  *)
(***************************************************************************)
EXTENDS Integers, Sequences, FiniteSets, TLC

\* ---------------------------------------------------------------- bounds
\* Largest retry budget explored: retries ranges over 0..MaxRetries.
MaxRetries == 2

\* Durations (ms) one latency ping can take, and durations (ms) one
\* throughput probe can take.
PingTimes == {20}
VariedPingTimes == {0, 20, 30}
ThroughputTimes == {100, 400, 800}

\* ------------------------------------------------------ program constants
DOWNLOAD_SIZES == <<1048576, 5242880, 10485760>>
UPLOAD_SIZES == <<1048576, 2097152>>
LATENCY_ATTEMPTS == 8
BACKOFF_UNIT_MS == 300

\* ------------------------------------------------------------- rationals
Null == [null |-> TRUE]

Abs(x) == IF x < 0 THEN -x ELSE x

RECURSIVE Gcd(_, _)
Gcd(a, b) == IF b = 0 THEN a ELSE Gcd(b, a % b)

\* the rational n/d (d # 0) in lowest terms with a positive denominator
Rat(n, d) ==
    LET g == Gcd(Abs(n), Abs(d))
        s == IF d < 0 THEN -1 ELSE 1
    IN  [num |-> s * (n \div g), den |-> s * (d \div g)]

RatInt(n) == [num |-> n, den |-> 1]

RatAdd(a, b) ==
    LET l == (a.den \div Gcd(a.den, b.den)) * b.den
    IN  Rat(a.num * (l \div a.den) + b.num * (l \div b.den), l)

RatSub(a, b) == RatAdd(a, [num |-> -b.num, den |-> b.den])

RatMul(a, b) ==
    LET g1 == Gcd(Abs(a.num), b.den)
        g2 == Gcd(Abs(b.num), a.den)
    IN  Rat((a.num \div g1) * (b.num \div g2), (a.den \div g2) * (b.den \div g1))

RatDivInt(a, n) == RatMul(a, [num |-> 1, den |-> n])

\* a / b for b > 0
RatDiv(a, b) == RatMul(a, [num |-> b.den, den |-> b.num])

RatLeq(a, b) == RatSub(b, a).num >= 0

RatMin(a, b) == IF RatLeq(a, b) THEN a ELSE b

RatMax(a, b) == IF RatLeq(a, b) THEN b ELSE a

RatAbs(a) == [num |-> Abs(a.num), den |-> a.den]

IsInteger(a) == a.den = 1

\* ------------------------------------------------------- pure functions
\* Math.min(100, Math.max(0, value)) in runSpeedTest.progress
Clamp(value) == RatMin(RatInt(100), RatMax(RatInt(0), value))

\* faulty variant: the download stage is given 50 points instead of 55
DownloadProgress50(i) ==
    RatAdd(RatInt(20), RatMul(Rat(i + 1, Len(DOWNLOAD_SIZES)), RatInt(50)))

\* 20 + ((i + 1) / DOWNLOAD_SIZES.length) * 55, i the 0-based loop index
DownloadProgress(i) ==
    RatAdd(RatInt(20), RatMul(Rat(i + 1, Len(DOWNLOAD_SIZES)), RatInt(55)))

\* faulty variant: the upload stage restarts from the download stage's base
UploadProgressFrom20(i) ==
    RatAdd(RatInt(20), RatMul(Rat(i + 1, Len(UPLOAD_SIZES)), RatInt(18)))

\* faulty variant: the upload stage is given 17 points instead of 18
UploadProgress17(i) ==
    RatAdd(RatInt(80), RatMul(Rat(i + 1, Len(UPLOAD_SIZES)), RatInt(17)))

\* 80 + ((i + 1) / UPLOAD_SIZES.length) * 18
UploadProgress(i) ==
    RatAdd(RatInt(80), RatMul(Rat(i + 1, Len(UPLOAD_SIZES)), RatInt(18)))

\* faulty variant: the same delay before every retry
BackoffFlat(attempt) == BACKOFF_UNIT_MS

\* 300 * (attempt + 1), the delay of the backoff timer of withRetry
BackoffMs(attempt) == BACKOFF_UNIT_MS * (attempt + 1)

\* mbps = (sizeBytes * 8) / seconds / 1_000_000 with seconds = ms / 1000
\* (the rational arithmetic is exact, so the division by 1_000_000 is done
\* first to keep the intermediate numerators small)
Mbps(sizeBytes, ms) ==
    RatDiv(Rat(sizeBytes * 8, 1000000), Rat(ms, 1000))

ThroughputSample(sizeBytes, ms) ==
    [sizeBytes |-> sizeBytes, durationSeconds |-> Rat(ms, 1000),
     mbps |-> Mbps(sizeBytes, ms)]

RECURSIVE SumMbps(_)
SumMbps(samples) ==
    IF samples = <<>> THEN RatInt(0)
    ELSE RatAdd(SumMbps(Tail(samples)), Head(samples).mbps)

RECURSIVE SumBytes(_)
SumBytes(samples) ==
    IF samples = <<>> THEN 0
    ELSE Head(samples).sizeBytes + SumBytes(Tail(samples))

RECURSIVE SumSeconds(_)
SumSeconds(samples) ==
    IF samples = <<>> THEN RatInt(0)
    ELSE RatAdd(SumSeconds(Tail(samples)), Head(samples).durationSeconds)

\* faulty variant: the mean weighted by size, total bits over total time
averageThroughputWeighted(samples) ==
    IF Len(samples) = 0 THEN RatInt(0)
    ELSE RatDiv(Rat(SumBytes(samples) * 8, 1000000), SumSeconds(samples))

averageThroughput(samples) ==
    IF Len(samples) = 0 THEN RatInt(0)
    ELSE RatDivInt(SumMbps(samples), Len(samples))

RECURSIVE SumSeq(_)
SumSeq(s) == IF s = <<>> THEN 0 ELSE Head(s) + SumSeq(Tail(s))

\* faulty variant: the deviations are summed with their sign
RECURSIVE SumDev(_, _)
SumDev(s, avg) ==
    IF s = <<>> THEN RatInt(0)
    ELSE RatAdd(SumDev(Tail(s), avg), RatSub(RatInt(Head(s)), avg))

RECURSIVE SumAbsDev(_, _)
SumAbsDev(s, avg) ==
    IF s = <<>> THEN RatInt(0)
    ELSE RatAdd(SumAbsDev(Tail(s), avg), RatAbs(RatSub(RatInt(Head(s)), avg)))

SeqMin(s) == CHOOSE x \in {s[k] : k \in 1..Len(s)} : \A k \in 1..Len(s) : x <= s[k]

SeqMax(s) == CHOOSE x \in {s[k] : k \in 1..Len(s)} : \A k \in 1..Len(s) : x >= s[k]

\* the LatencyMetrics measureLatency builds from its samples
LatencyMetrics(s) ==
    LET average == Rat(SumSeq(s), Len(s))
    IN  [average |-> average,
         min |-> SeqMin(s),
         max |-> SeqMax(s),
         jitter |-> RatDivInt(SumAbsDev(s, average), Len(s)),
         samples |-> s]

\* ------------------------------------------------------------------ state
VARIABLES
    enableUpload,     \* RunSpeedTestOptions.enableUpload
    retries,          \* RunSpeedTestOptions.retries
    aborted,          \* signal.aborted of RunSpeedTestOptions.signal
    pc,               \* where runSpeedTest is: the stage whose withRetry it
                      \* awaits ("latency", "download", "upload"), or
                      \* "returned" / "thrown"
    i,                \* loop index i of the download / upload loop
    attempt,          \* loop variable attempt of the running withRetry
    lastError,        \* lastError of the running withRetry
    wpc,              \* what the running probe awaits: "fetch" (the fetch
                      \* promise), "body" (response.arrayBuffer()), "sleep"
                      \* (the backoff timer of withRetry), "none"
    timer,            \* delay in ms of the pending backoff timer, 0 if none
    li,               \* loop index i of measureLatency
    samples,          \* samples of measureLatency
    latency,          \* latency of runSpeedTest
    downloadSamples,  \* downloadSamples of runSpeedTest
    uploadSamples,    \* uploadSamples of runSpeedTest
    result,           \* the SpeedTestResult runSpeedTest resolved with
    thrown,           \* the error runSpeedTest rejected with
    log,              \* the calls made to onProgress, in call order
    probeSize,        \* size / sizeBytes of the running probe (0: latency)
    pingTimes,        \* environment: durations (ms) a latency ping can take
    probeTimes,       \* environment: durations (ms) a sized probe can take
    \* the calling component, components/SpeedTest.tsx
    isRunning,        \* useState isRunning
    uiPhase,          \* useState phase
    uiProgress,       \* useState progress
    uiError,          \* useState error: "null" or "message"
    uiResult,         \* useState result: Null or a SpeedTestResult
    abortControllerRef, \* abortControllerRef.current: 0 for null, else the
                      \* number of the run whose controller it holds
    runs,             \* the runSpeedTest calls made by startTest, in call
                      \* order: records [aborted, s] with the signal of the
                      \* call and the engine state s of the call
    \* getIspInformation
    ispPc,            \* "idle", "fetch", "json", "resolved", "rejected"
    isp,              \* the value getIspInformation resolved with
    ispCause,         \* history: how the lookup went ("ok", "network", ...)
    \* history variables
    inflight,         \* requests of the run whose response or body is pending
    sampleTags,       \* for each entry of samples, <<calls, li>> of its ping
    latencyTags,      \* sampleTags of the samples held by latency
    opNo,             \* number of withRetry calls started in the run
    calls,            \* invocations of fn made by the running withRetry
    fails,            \* invocations of fn that failed, same withRetry
    sleeps,           \* backoff timers scheduled by the running withRetry
    lastCall,         \* record of the last withRetry call that completed
    abortedDuring     \* value of pc when the signal was aborted

uiVars == <<isRunning, uiPhase, uiProgress, uiError, uiResult,
            abortControllerRef, runs>>

ispVars == <<ispPc, isp, ispCause>>

runVars == <<pc, i, attempt, lastError, wpc, timer, li, samples, latency,
             downloadSamples, uploadSamples, result, thrown, log, probeSize,
             opNo, calls, fails, sleeps, lastCall, inflight, sampleTags,
             latencyTags>>

vars == <<enableUpload, retries, pingTimes, probeTimes, aborted,
          abortedDuring, runVars, uiVars, ispVars>>

\* the part of the state the engine itself writes, as one record
Cur ==
    [pc |-> pc, i |-> i, attempt |-> attempt, lastError |-> lastError,
     wpc |-> wpc, timer |-> timer, li |-> li, samples |-> samples,
     latency |-> latency, downloadSamples |-> downloadSamples,
     uploadSamples |-> uploadSamples, result |-> result, thrown |-> thrown,
     log |-> log, probeSize |-> probeSize, opNo |-> opNo, calls |-> calls,
     fails |-> fails, sleeps |-> sleeps, lastCall |-> lastCall,
     inflight |-> inflight, sampleTags |-> sampleTags,
     latencyTags |-> latencyTags]

Becomes(s) ==
    /\ pc' = s.pc
    /\ i' = s.i
    /\ attempt' = s.attempt
    /\ lastError' = s.lastError
    /\ wpc' = s.wpc
    /\ timer' = s.timer
    /\ li' = s.li
    /\ samples' = s.samples
    /\ latency' = s.latency
    /\ downloadSamples' = s.downloadSamples
    /\ uploadSamples' = s.uploadSamples
    /\ result' = s.result
    /\ thrown' = s.thrown
    /\ log' = s.log
    /\ opNo' = s.opNo
    /\ calls' = s.calls
    /\ fails' = s.fails
    /\ sleeps' = s.sleeps
    /\ lastCall' = s.lastCall
    /\ probeSize' = s.probeSize
    /\ inflight' = s.inflight
    /\ sampleTags' = s.sampleTags
    /\ latencyTags' = s.latencyTags

\* ----------------------------------------------------------- environment
\* faulty variant: the request is issued without the signal
IgnoresSignal(isAborted, outcomes) == outcomes

\* fetch(url, {cache, signal}) of lines 78, 104-107 and 126-132: the request
\* and its body read observe the signal, so once it is aborted the pending
\* promise can only reject with the AbortError
ObservesSignal(isAborted, outcomes) ==
    IF isAborted THEN {"abort"} ELSE outcomes

\* How an awaited fetch(url, {signal}) can settle: a response with
\* response.ok ("ok"), a response with a non-success status ("http"), a
\* rejection for a connection failure ("network"); once the signal is
\* aborted the promise rejects with the AbortError ("abort").
FetchOutcomes(isAborted) ==
    ObservesSignal(isAborted, {"ok", "http", "network"})

\* How an awaited response.arrayBuffer() can settle.
BodyOutcomes(isAborted) ==
    ObservesSignal(isAborted, {"ok", "network"})

\* crypto.getRandomValues(data) of measureUploadForSize either fills the
\* payload or throws QuotaExceededError (a platform that enforces the
\* 65536-byte limit of the Web Crypto API throws for every UPLOAD_SIZES).
RandomFillOutcomes == {"ok", "quota"}

\* ------------------------------------------------------------ the engine
\* Each operator below takes the engine's state s as a record and gives
\* the SET of states the code can reach from s by running synchronously
\* up to its next await, its return or its throw.

NoError == [kind |-> "none"]

NoCall == [outcome |-> "none"]

\* the error an attempt raises: errors of different invocations of fn are
\* different objects, told apart here by stage, size index and the ordinal
\* of the invocation inside its withRetry call
MkError(s, kind) ==
    [kind |-> kind, stage |-> s.pc, index |-> s.i, call |-> s.calls]

\* the request a probe has in flight: told apart by the withRetry call,
\* the invocation of fn and, in measureLatency, the ping
RequestOf(s) == <<s.opNo, s.calls, s.li>>

\* await fetch(...) of lines 78, 104 and 126: the request is issued and
\* the probe is suspended on it
IssueFetch(s) ==
    [s EXCEPT !.wpc = "fetch", !.inflight = @ \cup {RequestOf(s)}]

\* faulty variant: the probe goes on while its request is still pending
NotAwaited(s) == s

\* the awaited fetch rejected, or the awaited body read settled: the
\* request of the probe is over when the probe resumes
Settled(s) == [s EXCEPT !.inflight = @ \ {RequestOf(s)}]

\* faulty variant: samples is not emptied when the measurement restarts
KeepSamples(old) == old

\* measureLatency line 74: const samples: number[] = []
FreshSamples(old) == <<>>

\* faulty variant: the sizes are taken from the end of the list
SizeFromEnd(sizes, k) == sizes[Len(sizes) - k]

\* lines 170 and 181: const size = SIZES[i]
SizeAt(sizes, k) == sizes[k + 1]

\* runSpeedTest.progress: onProgress(clamp(value), phase)
Progress(s, value, phase) ==
    [s EXCEPT !.log = Append(@, [value |-> Clamp(value), phase |-> phase])]

\* faulty variant: the loop gives up one attempt early
IsLastAttemptEarly(a, r) == a + 1 >= r

\* withRetry line 50: attempt === retries
IsLastAttempt(a, r) == a = r

\* faulty variant: the first error is kept (lastError ??= error)
KeepFirstError(old, error) == IF old = NoError THEN error ELSE old

\* withRetry line 49: lastError = error
NextLastError(old, error) == error

\* faulty variant: the error is replaced by a new one on its way up
Wrapped(error) == [error EXCEPT !.kind = "wrapped"]

\* withRetry line 56 throws the error object itself, and lines 165, 171 and
\* 182 of runSpeedTest await withRetry outside any try block
Propagated(error) == error

\* withRetry line 56, throw lastError; runSpeedTest has no try/catch, so
\* the error rejects the promise of runSpeedTest
Throw(s) ==
    [s EXCEPT !.pc = "thrown", !.wpc = "none", !.timer = 0,
              !.thrown = Propagated(s.lastError),
              !.lastCall = [outcome |-> "throw", stage |-> s.pc,
                            index |-> s.i, calls |-> s.calls,
                            fails |-> s.fails, sleeps |-> s.sleeps,
                            error |-> s.lastError]]

\* withRetry lines 48-54: the catch block, entered with the error of fn
Catch(s, error) ==
    LET c == [s EXCEPT !.lastError = NextLastError(s.lastError, error),
                       !.fails = @ + 1]
    IN  IF IsLastAttempt(c.attempt, retries)
        THEN {Throw(c)}
        ELSE {[c EXCEPT !.wpc = "sleep", !.timer = BackoffMs(c.attempt),
                        !.sleeps = @ + 1]}

\* withRetry line 47, fn(): the probe of the current stage runs up to its
\* first await
InvokeFn(s) ==
    LET c == [s EXCEPT !.calls = @ + 1, !.timer = 0]
    IN  CASE c.pc = "latency" ->
               \* measureLatency lines 74-78
               {IssueFetch([c EXCEPT !.samples = FreshSamples(@),
                                     !.sampleTags = FreshSamples(@),
                                     !.li = 0])}
          [] c.pc = "download" ->
               \* measureDownloadForSize lines 101-107
               {IssueFetch(c)}
          [] c.pc = "upload" ->
               \* measureUploadForSize lines 122-132
               UNION {IF o = "ok" THEN {IssueFetch(c)}
                      ELSE Catch(c, MkError(c, o)) : o \in RandomFillOutcomes}

\* withRetry lines 44-47: a new call enters the loop with attempt = 0
WithRetry(s) ==
    LET c == [s EXCEPT !.attempt = 0, !.lastError = NoError,
                       !.opNo = @ + 1, !.calls = 0, !.fails = 0,
                       !.sleeps = 0]
    IN  IF c.attempt <= retries THEN InvokeFn(c) ELSE {Throw(c)}

\* faulty variant: the run ends without announcing the completion
CompletedEventUpload == [value |-> RatInt(100), phase |-> "upload"]

\* the onProgress call of line 189
CompletedEvent == [value |-> RatInt(100), phase |-> "completed"]

\* runSpeedTest lines 189-196
Finish(s, uploadMbps) ==
    LET c == Progress(s, CompletedEvent.value, CompletedEvent.phase)
    IN  {[c EXCEPT !.pc = "returned", !.wpc = "none",
                   !.result = [downloadMbps |-> averageThroughput(c.downloadSamples),
                               uploadMbps |-> uploadMbps,
                               latency |-> c.latency]]}

\* faulty variant: the loop stops one size early
LoopStopsEarly(k, sizes) == k + 1 < Len(sizes)

\* loop test i < SIZES.length of the download and upload loops
LoopContinues(k, sizes) == k < Len(sizes)

\* runSpeedTest lines 180-186: the upload loop from its test on
UploadLoop(s) ==
    IF LoopContinues(s.i, UPLOAD_SIZES)
    THEN WithRetry([s EXCEPT !.pc = "upload",
                             !.probeSize = SizeAt(UPLOAD_SIZES, s.i)])
    ELSE Finish(s, averageThroughput(s.uploadSamples))

\* faulty variant: the option is ignored
UploadStageAlways(flag) == TRUE

\* runSpeedTest line 178: if (enableUpload)
UploadStageRuns(flag) == flag

\* runSpeedTest lines 169-179: the download loop from its test on
DownloadLoop(s) ==
    IF LoopContinues(s.i, DOWNLOAD_SIZES)
    THEN WithRetry([s EXCEPT !.pc = "download",
                             !.probeSize = SizeAt(DOWNLOAD_SIZES, s.i)])
    ELSE IF UploadStageRuns(enableUpload)
         THEN UploadLoop([s EXCEPT !.uploadSamples = <<>>, !.i = 0])
         ELSE Finish(s, Null)

\* faulty variant: the run announces itself with the phase of the next stage
StartEventDownload == [value |-> RatInt(2), phase |-> "download"]

\* the onProgress calls of lines 164, 166, 173 and 184
StartEvent == [value |-> RatInt(2), phase |-> "latency"]

LatencyDoneEvent == [value |-> RatInt(20), phase |-> "latency"]

\* faulty variant: the download progress is reported under the phase of
\* the stage before
DownloadEventLatency(k) ==
    [value |-> DownloadProgress(k), phase |-> "latency"]

DownloadEvent(k) == [value |-> DownloadProgress(k), phase |-> "download"]

UploadEvent(k) == [value |-> UploadProgress(k), phase |-> "upload"]

\* withRetry line 47, return await fn(): fn resolved with value; withRetry
\* returns it and runSpeedTest goes on after its await
Return(s, value) ==
    LET c == [s EXCEPT !.wpc = "none",
                       !.lastCall = [outcome |-> "return", stage |-> s.pc,
                                     index |-> s.i, calls |-> s.calls,
                                     fails |-> s.fails, sleeps |-> s.sleeps,
                                     value |-> value]]
    IN  CASE c.pc = "latency" ->
               \* lines 165-169
               DownloadLoop([Progress([c EXCEPT !.latency = value,
                                                !.latencyTags = c.sampleTags],
                                      LatencyDoneEvent.value,
                                      LatencyDoneEvent.phase)
                             EXCEPT !.downloadSamples = <<>>, !.i = 0])
          [] c.pc = "download" ->
               \* lines 171-174
               DownloadLoop([Progress([c EXCEPT !.downloadSamples = Append(@, value)],
                                      DownloadEvent(c.i).value,
                                      DownloadEvent(c.i).phase)
                             EXCEPT !.i = @ + 1])
          [] c.pc = "upload" ->
               \* lines 182-185
               UploadLoop([Progress([c EXCEPT !.uploadSamples = Append(@, value)],
                                    UploadEvent(c.i).value,
                                    UploadEvent(c.i).phase)
                           EXCEPT !.i = @ + 1])

\* ------------------------------------------------ the steps of one run
\* runSpeedTest is called: lines 164-165 up to the first await
Begin(s) ==
    WithRetry([Progress(s, StartEvent.value, StartEvent.phase)
               EXCEPT !.pc = "latency", !.probeSize = 0])

\* the awaited fetch resolved with a response that is ok: the probe goes
\* on to await response.arrayBuffer() (lines 78-82, 104-111, 126-136)
FetchOk(s) == {[s EXCEPT !.wpc = "body"]}

\* the awaited fetch rejected or resolved with a response that is not ok
\* (lines 79-81, 108-110, 133-135), or the awaited body read rejected:
\* the probe throws the error of kind o
ProbeFails(s, o) == Catch(Settled(s), MkError(s, o))

\* measureLatency lines 82-97: the body of ping li is read after d ms
PingDone(s, d) ==
    LET c == [Settled(s) EXCEPT !.samples = Append(@, d),
                                !.sampleTags = Append(@, <<s.calls, s.li>>),
                                !.li = @ + 1]
    IN  IF c.li < LATENCY_ATTEMPTS
        THEN {IssueFetch(c)}
        ELSE Return(c, LatencyMetrics(c.samples))

\* measureDownloadForSize lines 111-118 and measureUploadForSize lines
\* 136-143: the body is read after d ms
ProbeDone(s, d) == Return(Settled(s), ThroughputSample(s.probeSize, d))

\* faulty variant: the loop does not count its attempts
SameAttempt(a) == a

\* withRetry line 45: attempt += 1
NextAttempt(a) == a + 1

\* withRetry lines 53 and 45-47: the backoff timer fires, attempt += 1,
\* the loop test, and the next fn()
Elapse(s) ==
    LET c == [s EXCEPT !.attempt = NextAttempt(@), !.timer = 0]
    IN  IF c.attempt <= retries THEN InvokeFn(c) ELSE {Throw(c)}

\* the state of a run that has not been started
NoRun ==
    [pc |-> "idle", i |-> 0, attempt |-> 0, lastError |-> NoError,
     wpc |-> "none", timer |-> 0, li |-> 0, samples |-> <<>>,
     latency |-> Null, downloadSamples |-> <<>>, uploadSamples |-> <<>>,
     result |-> Null, thrown |-> NoError, log |-> <<>>, probeSize |-> 0,
     opNo |-> 0, calls |-> 0, fails |-> 0, sleeps |-> 0, lastCall |-> NoCall,
     inflight |-> {}, sampleTags |-> <<>>, latencyTags |-> <<>>]

\* --------------------------------------------------------------- actions
config == <<enableUpload, retries, pingTimes, probeTimes>>

\* the component before its first render has called anything
InitUi ==
    /\ isRunning = FALSE
    /\ uiPhase = "idle"
    /\ uiProgress = 0
    /\ uiError = "null"
    /\ uiResult = Null
    /\ abortControllerRef = 0
    /\ runs = <<>>

InitIsp ==
    /\ ispPc = "idle"
    /\ isp = "undefined"
    /\ ispCause = "none"

InitRun ==
    /\ aborted = FALSE
    /\ abortedDuring = "never"
    /\ pc = NoRun.pc
    /\ i = NoRun.i
    /\ attempt = NoRun.attempt
    /\ lastError = NoRun.lastError
    /\ wpc = NoRun.wpc
    /\ timer = NoRun.timer
    /\ li = NoRun.li
    /\ samples = NoRun.samples
    /\ latency = NoRun.latency
    /\ downloadSamples = NoRun.downloadSamples
    /\ uploadSamples = NoRun.uploadSamples
    /\ result = NoRun.result
    /\ thrown = NoRun.thrown
    /\ log = NoRun.log
    /\ probeSize = NoRun.probeSize
    /\ opNo = NoRun.opNo
    /\ calls = NoRun.calls
    /\ fails = NoRun.fails
    /\ sleeps = NoRun.sleeps
    /\ lastCall = NoRun.lastCall
    /\ inflight = NoRun.inflight
    /\ sampleTags = NoRun.sampleTags
    /\ latencyTags = NoRun.latencyTags

Init ==
    /\ enableUpload \in BOOLEAN
    /\ retries \in 0..MaxRetries
    /\ pingTimes = PingTimes
    /\ probeTimes = ThroughputTimes
    /\ InitRun
    /\ InitUi
    /\ InitIsp

\* runSpeedTest is called with a fresh signal
Start ==
    /\ pc = "idle"
    /\ \E s \in Begin(Cur) : Becomes(s)
    /\ UNCHANGED <<config, aborted, abortedDuring, uiVars, ispVars>>

FetchResolves ==
    /\ wpc = "fetch"
    /\ "ok" \in FetchOutcomes(aborted)
    /\ \E s \in FetchOk(Cur) : Becomes(s)
    /\ UNCHANGED <<config, aborted, abortedDuring, uiVars, ispVars>>

FetchFails ==
    /\ wpc = "fetch"
    /\ \E o \in FetchOutcomes(aborted) \ {"ok"} :
          \E s \in ProbeFails(Cur, o) : Becomes(s)
    /\ UNCHANGED <<config, aborted, abortedDuring, uiVars, ispVars>>

\* the awaited response.arrayBuffer() rejects
BodyFails ==
    /\ wpc = "body"
    /\ \E o \in BodyOutcomes(aborted) \ {"ok"} :
          \E s \in ProbeFails(Cur, o) : Becomes(s)
    /\ UNCHANGED <<config, aborted, abortedDuring, uiVars, ispVars>>

LatencyPingDone ==
    /\ pc = "latency"
    /\ wpc = "body"
    /\ "ok" \in BodyOutcomes(aborted)
    /\ \E d \in pingTimes : \E s \in PingDone(Cur, d) : Becomes(s)
    /\ UNCHANGED <<config, aborted, abortedDuring, uiVars, ispVars>>

DownloadDone ==
    /\ pc = "download"
    /\ wpc = "body"
    /\ "ok" \in BodyOutcomes(aborted)
    /\ \E d \in probeTimes : \E s \in ProbeDone(Cur, d) : Becomes(s)
    /\ UNCHANGED <<config, aborted, abortedDuring, uiVars, ispVars>>

UploadDone ==
    /\ pc = "upload"
    /\ wpc = "body"
    /\ "ok" \in BodyOutcomes(aborted)
    /\ \E d \in probeTimes : \E s \in ProbeDone(Cur, d) : Becomes(s)
    /\ UNCHANGED <<config, aborted, abortedDuring, uiVars, ispVars>>

BackoffElapses ==
    /\ wpc = "sleep"
    /\ \E s \in Elapse(Cur) : Becomes(s)
    /\ UNCHANGED <<config, aborted, abortedDuring, uiVars, ispVars>>

\* the owner of the AbortController calls abort()
Abort ==
    /\ ~aborted
    /\ aborted' = TRUE
    /\ abortedDuring' = pc
    /\ UNCHANGED <<config, runVars, uiVars, ispVars>>

Next ==
    \/ Start
    \/ FetchResolves
    \/ FetchFails
    \/ BodyFails
    \/ LatencyPingDone
    \/ DownloadDone
    \/ UploadDone
    \/ BackoffElapses
    \/ Abort

Spec == Init /\ [][Next]_vars

\* One run without retries and without upload, over every list of ping
\* durations drawn from VariedPingTimes.
InitLatency ==
    /\ enableUpload = FALSE
    /\ retries = 0
    /\ pingTimes = VariedPingTimes
    /\ probeTimes = {100}
    /\ InitRun
    /\ InitUi
    /\ InitIsp

NextLatency ==
    \/ Start
    \/ FetchResolves
    \/ FetchFails
    \/ LatencyPingDone
    \/ DownloadDone

SpecLatency == InitLatency /\ [][NextLatency]_vars

\* ------------------------------------------------------ getIspInformation
\* the bodies the metadata endpoint may answer with, after res.json():
\* null, or an object whose client.asn.name, client.iata and client.ip are
\* each a string or missing ("undefined")
IspBodies ==
    {Null} \cup
    [name : {"undefined", "ACME Net"}, iata : {"undefined", "CDG"},
     ip : {"undefined", "192.0.2.1"}]

\* line 66: data?.client?.asn?.name || data?.client?.iata || data?.client?.ip
IspName(data) ==
    IF data = Null THEN "undefined"
    ELSE IF data.name # "undefined" THEN data.name
    ELSE IF data.iata # "undefined" THEN data.iata
    ELSE data.ip

\* faulty variant: the failure is thrown on to the caller
IspRethrow(cause) == [pc |-> "rejected", value |-> "undefined"]

\* lines 67-70: catch (error) { console.warn(...); return undefined; }
IspCatch(cause) == [pc |-> "resolved", value |-> "undefined"]

\* SpeedTest.tsx lines 105-111: the mount effect calls getIspInformation,
\* which runs to its await fetch(CLOUDFLARE_META_ENDPOINT)
IspStart ==
    /\ ispPc = "idle"
    /\ ispPc' = "fetch"
    /\ UNCHANGED <<isp, ispCause>>
    /\ UNCHANGED <<config, aborted, abortedDuring, runVars, uiVars>>

\* lines 61-65: the fetch resolves with res.ok; await res.json() follows
IspFetchResolves ==
    /\ ispPc = "fetch"
    /\ ispPc' = "json"
    /\ UNCHANGED <<isp, ispCause>>
    /\ UNCHANGED <<config, aborted, abortedDuring, runVars, uiVars>>

\* lines 61-64 and 67-70: the fetch rejects ("network") or resolves with
\* a non-success status and line 63 throws ("http"); SpeedTest.tsx lines
\* 107-111 then store the value the lookup resolved with
IspFetchFails ==
    /\ ispPc = "fetch"
    /\ \E cause \in {"network", "http"} :
          /\ ispPc' = IspCatch(cause).pc
          /\ isp' = IF IspCatch(cause).pc = "resolved"
                     THEN IspCatch(cause).value ELSE isp
          /\ ispCause' = cause
    /\ UNCHANGED <<config, aborted, abortedDuring, runVars, uiVars>>

\* lines 65-66: res.json() resolves with the parsed body
IspJsonResolves ==
    /\ ispPc = "json"
    /\ \E data \in IspBodies :
          /\ ispPc' = "resolved"
          /\ isp' = IspName(data)
          /\ ispCause' = "ok"
    /\ UNCHANGED <<config, aborted, abortedDuring, runVars, uiVars>>

\* lines 65 and 67-70: res.json() rejects, the body cannot be parsed
IspJsonFails ==
    /\ ispPc = "json"
    /\ ispPc' = IspCatch("parse").pc
    /\ isp' = IF IspCatch("parse").pc = "resolved"
               THEN IspCatch("parse").value ELSE isp
    /\ ispCause' = "parse"
    /\ UNCHANGED <<config, aborted, abortedDuring, runVars, uiVars>>

\* One run with a retry budget of 1, and the metadata lookup beside it.
InitLookup ==
    /\ enableUpload \in BOOLEAN
    /\ retries = 1
    /\ pingTimes = PingTimes
    /\ probeTimes = {100}
    /\ InitRun
    /\ InitUi
    /\ InitIsp

NextLookup ==
    \/ Start
    \/ FetchResolves
    \/ FetchFails
    \/ BodyFails
    \/ LatencyPingDone
    \/ DownloadDone
    \/ UploadDone
    \/ BackoffElapses
    \/ Abort
    \/ IspStart
    \/ IspFetchResolves
    \/ IspFetchFails
    \/ IspJsonResolves
    \/ IspJsonFails

SpecLookup == InitLookup /\ [][NextLookup]_vars

\* ------------------------------------------- components/SpeedTest.tsx
\* startTest clicks explored
MaxRuns == 2

\* runSpeedTest line 156: retries = 2, the component passes no retries
DEFAULT_RETRIES == 2

\* the state of the component that startTest and cancelTest write
CurUi ==
    [isRunning |-> isRunning, phase |-> uiPhase, progress |-> uiProgress,
     error |-> uiError, result |-> uiResult, ref |-> abortControllerRef]

UiBecomes(u) ==
    /\ isRunning' = u.isRunning
    /\ uiPhase' = u.phase
    /\ uiProgress' = u.progress
    /\ uiError' = u.error
    /\ uiResult' = u.result
    /\ abortControllerRef' = u.ref

\* Math.round of a non-negative number: floor(x + 1/2)
Round(x) == (2 * x.num + x.den) \div (2 * x.den)

\* lines 147-150: onProgress of the run
OnProgress(u, event) ==
    [u EXCEPT !.progress = Round(event.value), !.phase = event.phase]

\* the onProgress calls a step of the run makes, in call order
RECURSIVE OnProgressAll(_, _)
OnProgressAll(u, events) ==
    IF events = <<>> THEN u
    ELSE OnProgressAll(OnProgress(u, Head(events)), Tail(events))

\* faulty variant: every DOMException counts as a cancellation
IsDomException(err) == err.kind \in {"abort", "quota"}

\* line 167: err instanceof DOMException && err.name === 'AbortError'
IsAbortError(err) == err.kind = "abort"

\* lines 177-180: finally
Finally(u) == [u EXCEPT !.isRunning = FALSE, !.ref = 0]

\* lines 153-180: startTest resumes after await runSpeedTest(...)
OnSettled(u, s) ==
    IF s.pc = "returned"
    THEN Finally([u EXCEPT !.result = s.result, !.phase = "completed",
                           !.progress = 100])
    ELSE IF s.pc = "thrown"
    THEN IF IsAbortError(s.thrown)
         THEN Finally([u EXCEPT !.error = "null", !.phase = "idle",
                                !.progress = 0])
         ELSE Finally([u EXCEPT !.error = "message", !.phase = "error",
                                !.progress = 0])
    ELSE u

\* what a step of a run from engine state s to engine state t does to the
\* component: the onProgress calls of the step, then the rest of startTest
\* if the step settled the promise of runSpeedTest
AfterStep(u, s, t) ==
    OnSettled(OnProgressAll(u, SubSeq(t.log, Len(s.log) + 1, Len(t.log))), t)

\* The history variables of the engine are not program state; the runs of
\* the component are kept without them.
WithoutHistory(t) ==
    [t EXCEPT !.log = NoRun.log, !.opNo = NoRun.opNo, !.calls = NoRun.calls,
              !.fails = NoRun.fails, !.sleeps = NoRun.sleeps,
              !.lastCall = NoRun.lastCall, !.inflight = NoRun.inflight,
              !.sampleTags = NoRun.sampleTags,
              !.latencyTags = NoRun.latencyTags]

\* run k goes to one of the engine states of next
RunStep(k, next) ==
    /\ \E t \in next :
          /\ runs' = [runs EXCEPT ![k].s = WithoutHistory(t)]
          /\ UiBecomes(AfterStep(CurUi, runs[k].s, t))
    /\ UNCHANGED <<config, aborted, abortedDuring, runVars, ispVars>>

\* lines 131-151: a click on the start button, up to await runSpeedTest
StartTest ==
    /\ ~isRunning
    /\ Len(runs) < MaxRuns
    /\ \E t \in Begin(NoRun) :
          /\ runs' = Append(runs, [aborted |-> FALSE,
                                   s |-> WithoutHistory(t)])
          /\ UiBecomes(AfterStep([CurUi EXCEPT !.isRunning = TRUE,
                                               !.phase = "latency",
                                               !.progress = 0,
                                               !.error = "null",
                                               !.result = Null,
                                               !.ref = Len(runs) + 1],
                                  NoRun, t))
    /\ UNCHANGED <<config, aborted, abortedDuring, runVars, ispVars>>

\* lines 183-191 and 334-338: a click on the cancel button, which is
\* rendered while isRunning
CancelTest ==
    /\ isRunning
    /\ runs' = IF abortControllerRef # 0
               THEN [runs EXCEPT ![abortControllerRef].aborted = TRUE]
               ELSE runs
    /\ UiBecomes([CurUi EXCEPT !.ref = 0, !.isRunning = FALSE,
                               !.phase = "idle", !.progress = 0])
    /\ UNCHANGED <<config, aborted, abortedDuring, runVars, ispVars>>

RunFetchResolves ==
    \E k \in DOMAIN runs :
        /\ runs[k].s.wpc = "fetch"
        /\ "ok" \in FetchOutcomes(runs[k].aborted)
        /\ RunStep(k, FetchOk(runs[k].s))

RunFetchFails ==
    \E k \in DOMAIN runs :
        /\ runs[k].s.wpc = "fetch"
        /\ \E o \in FetchOutcomes(runs[k].aborted) \ {"ok"} :
              RunStep(k, ProbeFails(runs[k].s, o))

RunBodyFails ==
    \E k \in DOMAIN runs :
        /\ runs[k].s.wpc = "body"
        /\ \E o \in BodyOutcomes(runs[k].aborted) \ {"ok"} :
              RunStep(k, ProbeFails(runs[k].s, o))

RunLatencyPingDone ==
    \E k \in DOMAIN runs :
        /\ runs[k].s.pc = "latency"
        /\ runs[k].s.wpc = "body"
        /\ "ok" \in BodyOutcomes(runs[k].aborted)
        /\ \E d \in pingTimes : RunStep(k, PingDone(runs[k].s, d))

RunProbeDone ==
    \E k \in DOMAIN runs :
        /\ runs[k].s.pc \in {"download", "upload"}
        /\ runs[k].s.wpc = "body"
        /\ "ok" \in BodyOutcomes(runs[k].aborted)
        /\ \E d \in probeTimes : RunStep(k, ProbeDone(runs[k].s, d))

RunBackoffElapses ==
    \E k \in DOMAIN runs :
        /\ runs[k].s.wpc = "sleep"
        /\ RunStep(k, Elapse(runs[k].s))

\* The component as rendered the first time; runSpeedTest is called with
\* enableUpload: true and the default retries.
InitComponent ==
    /\ enableUpload = TRUE
    /\ retries = DEFAULT_RETRIES
    /\ pingTimes = PingTimes
    /\ probeTimes = {100}
    /\ InitRun
    /\ InitUi
    /\ InitIsp

NextComponent ==
    \/ StartTest
    \/ CancelTest
    \/ RunFetchResolves
    \/ RunFetchFails
    \/ RunBodyFails
    \/ RunLatencyPingDone
    \/ RunProbeDone
    \/ RunBackoffElapses

SpecComponent == InitComponent /\ [][NextComponent]_vars

\* Every request the run awaits settles and every backoff timer fires: the
\* fetch promise resolves or rejects, the body read resolves or rejects,
\* setTimeout calls back. Nothing is assumed of Start and Abort.
Fairness ==
    /\ WF_vars(FetchResolves \/ FetchFails)
    /\ WF_vars(BodyFails \/ LatencyPingDone \/ DownloadDone \/ UploadDone)
    /\ WF_vars(BackoffElapses)

SpecFair == Init /\ [][Next]_vars /\ Fairness

TypeOK ==
    /\ pc \in {"idle", "latency", "download", "upload", "returned", "thrown"}
    /\ wpc \in {"none", "fetch", "body", "sleep"}
    /\ attempt \in 0..retries
    /\ calls \in 0..(retries + 1)

\* ---------------------------------------------------------------- claims
Stages == {"latency", "download", "upload"}

\* the value runSpeedTest holds for the withRetry call recorded in c
StoredValue(c) ==
    CASE c.stage = "latency" -> latency
      [] c.stage = "download" -> downloadSamples[c.index + 1]
      [] c.stage = "upload" -> uploadSamples[c.index + 1]

\* C1: withRetry, success case.  A withRetry call whose operation failed k
\* times and then succeeded, k <= retries, returns that success value after
\* exactly k + 1 invocations; in particular it never gives up (throws)
\* while the operation has failed at most retries times.
C1_RetryReturnsSuccess ==
    /\ lastCall.outcome = "return" =>
          /\ lastCall.fails <= retries
          /\ lastCall.calls = lastCall.fails + 1
          /\ StoredValue(lastCall) = lastCall.value
    /\ lastCall.outcome = "throw" => lastCall.fails > retries
    /\ wpc \in {"fetch", "body"} => calls = fails + 1 /\ fails <= retries

C1_Witness ==
    /\ lastCall.outcome = "return"
    /\ retries >= 2
    /\ lastCall.fails = retries
    /\ lastCall.calls = retries + 1

\* C2: withRetry, exhaustion case.  A withRetry call that throws has
\* invoked its operation exactly retries + 1 times and throws the error
\* raised by invocation retries + 1 of that operation, which is the error
\* runSpeedTest rejects with.
C2_RetryThrowsLastError ==
    lastCall.outcome = "throw" =>
        /\ lastCall.calls = retries + 1
        /\ lastCall.fails = retries + 1
        /\ lastCall.error.kind \in {"http", "network", "abort", "quota"}
        /\ lastCall.error.stage = lastCall.stage
        /\ lastCall.error.index = lastCall.index
        /\ lastCall.error.call = retries + 1
        /\ thrown = lastCall.error

C2_Witness ==
    /\ lastCall.outcome = "throw"
    /\ retries >= 1
    /\ lastCall.error.kind = "http"
    /\ lastCall.error.call = retries + 1
    /\ ~aborted

\* a step in which withRetry invokes its operation
FnInvoked == opNo' # opNo \/ calls' # calls

\* a step in which withRetry schedules a backoff timer
SleepScheduled == wpc' = "sleep" /\ (wpc # "sleep" \/ attempt' # attempt)

\* C3: once the cancellation signal has fired during a run, the retry
\* wrapper schedules no backoff sleep and makes no further invocation of
\* the wrapped operation.
C3_NoRetryAfterCancel ==
    [][(abortedDuring \in Stages) => (~FnInvoked /\ ~SleepScheduled)]_vars

\* C4: if the signal is aborted while the run is in its latency, download
\* or upload stage, the run never returns a result and onProgress is never
\* called with phase completed or error.
C4_CancelledRunNeverCompletes ==
    abortedDuring \in Stages =>
        /\ pc # "returned"
        /\ result = Null
        /\ \A k \in 1..Len(log) : log[k].phase \notin {"completed", "error"}

C4_Witness ==
    /\ abortedDuring = "download"
    /\ pc = "thrown"
    /\ thrown.kind = "abort"
    /\ Len(downloadSamples) = 1

\* C5: the progress values passed to onProgress are non-decreasing in call
\* order and each lies in [0, 100].
C5_ProgressMonotone ==
    \A k \in 1..Len(log) :
        /\ RatLeq(RatInt(0), log[k].value)
        /\ RatLeq(log[k].value, RatInt(100))
        /\ k > 1 => RatLeq(log[k - 1].value, log[k].value)

C5_Witness ==
    /\ pc = "returned"
    /\ enableUpload
    /\ Len(log) = 8
    /\ lastCall.fails > 0

\* the sequence of onProgress calls of a run in which every stage succeeds
ExpectedLog(upload) ==
    <<[value |-> RatInt(2), phase |-> "latency"],
      [value |-> RatInt(20), phase |-> "latency"]>>
    \o [c \in 1..3 |-> [value |-> Rat(60 + 55 * c, 3), phase |-> "download"]]
    \o (IF upload
        THEN [c \in 1..2 |-> [value |-> RatInt(80 + 9 * c), phase |-> "upload"]]
        ELSE <<>>)
    \o <<[value |-> RatInt(100), phase |-> "completed"]>>

\* C6: in a run where every stage succeeds the calls to onProgress are
\* exactly (2, latency), (20, latency), (20 + (c/3)*55, download) for
\* c = 1..3, (80 + (c/2)*18, upload) for c = 1..2 if upload is enabled, and
\* (100, completed); retries add no call.
C6_ProgressSequence ==
    pc = "returned" => log = ExpectedLog(enableUpload)

C6_Witness ==
    /\ pc = "returned"
    /\ retries >= 1
    /\ lastCall.fails = 1
    /\ log = ExpectedLog(enableUpload)

\* C7 as stated: every progress value passed to onProgress is an integer
\* in [0, 100].
C7_ProgressIsInteger ==
    \A k \in 1..Len(log) :
        /\ IsInteger(log[k].value)
        /\ RatLeq(RatInt(0), log[k].value)
        /\ RatLeq(log[k].value, RatInt(100))

\* C7 as amended: every progress value passed to onProgress is a number in
\* [0, 100], and it is an integer except after the first and the second
\* download size, where 20 + 55/3 and 20 + 110/3 are passed unrounded.
C7_ProgressIntegerButThirds ==
    \A k \in 1..Len(log) :
        /\ RatLeq(RatInt(0), log[k].value)
        /\ RatLeq(log[k].value, RatInt(100))
        /\ \/ IsInteger(log[k].value)
           \/ /\ log[k].phase = "download"
              /\ log[k].value \in {Rat(115, 3), Rat(170, 3)}

C7_Witness ==
    /\ Len(log) >= 7
    /\ ~IsInteger(log[3].value)
    /\ ~IsInteger(log[4].value)
    /\ IsInteger(log[7].value)

PhaseRank(phase) ==
    CASE phase = "latency" -> 1
      [] phase = "download" -> 2
      [] phase = "upload" -> 3
      [] phase = "completed" -> 4
      [] OTHER -> 0

\* C8: the phases reported through onProgress follow the order latency,
\* download, upload, completed: once a later phase has been reported no
\* earlier phase is reported again.
C8_PhaseOrder ==
    \A k \in 1..Len(log) :
        /\ PhaseRank(log[k].phase) >= 1
        /\ \A j \in 1..(k - 1) : PhaseRank(log[j].phase) <= PhaseRank(log[k].phase)

C8_Witness ==
    /\ Len(log) = 8
    /\ log[1].phase = "latency"
    /\ log[5].phase = "download"
    /\ log[7].phase = "upload"
    /\ log[8].phase = "completed"
    /\ opNo = 6

\* C9: when enableUpload is false no upload probe is invoked, onProgress
\* is never called with phase upload nor with a value of the upload
\* stage's range (80 up to, but not including, the final 100), and a
\* successful run returns uploadMbps = null, not 0.
C9_UploadSkipped ==
    ~enableUpload =>
        /\ pc # "upload"
        /\ uploadSamples = <<>>
        /\ lastCall.outcome # "none" => lastCall.stage # "upload"
        /\ opNo <= 1 + Len(DOWNLOAD_SIZES)
        /\ \A k \in 1..Len(log) :
              /\ log[k].phase # "upload"
              /\ RatLeq(RatInt(80), log[k].value) =>
                    log[k] = [value |-> RatInt(100), phase |-> "completed"]
        /\ pc = "returned" =>
              /\ result.uploadMbps = Null
              /\ result.uploadMbps # RatInt(0)
              /\ result.downloadMbps # Null

C9_Witness ==
    /\ ~enableUpload
    /\ pc = "returned"
    /\ result.uploadMbps = Null
    /\ Len(log) = 6

\* position of a withRetry call among the calls of a run: the latency
\* measurement, then the download sizes, then the upload sizes
OpOrdinal(stage, index) ==
    CASE stage = "latency" -> 1
      [] stage = "download" -> 2 + index
      [] stage = "upload" -> 2 + Len(DOWNLOAD_SIZES) + index

\* C10: runSpeedTest returns a result only if the latency measurement, all
\* three download sizes and, when enabled, both upload sizes succeeded; if
\* one of them exhausts its retries the run throws, no later probe is
\* invoked and no result is returned.
C10_NoPartialResult ==
    /\ result # Null => pc = "returned"
    /\ pc = "returned" =>
          /\ result # Null
          /\ thrown = NoError
          /\ result.latency # Null
          /\ [k \in 1..Len(downloadSamples) |-> downloadSamples[k].sizeBytes]
                = DOWNLOAD_SIZES
          /\ [k \in 1..Len(uploadSamples) |-> uploadSamples[k].sizeBytes]
                = (IF enableUpload THEN UPLOAD_SIZES ELSE <<>>)
          /\ opNo = Len(DOWNLOAD_SIZES) + 1
                     + (IF enableUpload THEN Len(UPLOAD_SIZES) ELSE 0)
    /\ pc = "thrown" =>
          /\ result = Null
          /\ wpc = "none"
          /\ lastCall.outcome = "throw"
          /\ lastCall.fails = retries + 1
          /\ opNo = OpOrdinal(lastCall.stage, lastCall.index)
          /\ calls = lastCall.calls
          /\ lastCall.stage = "latency" => downloadSamples = <<>>
          /\ lastCall.stage = "download" =>
                Len(downloadSamples) = lastCall.index /\ uploadSamples = <<>>
          /\ lastCall.stage = "upload" => Len(uploadSamples) = lastCall.index
    /\ lastCall.outcome = "throw" => pc = "thrown"

C10_Witness ==
    /\ pc = "thrown"
    /\ ~aborted
    /\ thrown.kind = "http"
    /\ lastCall.stage = "download"
    /\ lastCall.index = 1
    /\ Len(downloadSamples) = 1

SizesOf(list) == [k \in 1..Len(list) |-> list[k].sizeBytes]

\* C14: the latency measurement is retried as a whole.  While a pass runs,
\* samples holds exactly the pings of that pass, in order from ping 0; the
\* LatencyMetrics a run keeps has LATENCY_ATTEMPTS = 8 samples that all
\* come from one invocation of measureLatency, in ping order.
C14_LatencyWholePass ==
    /\ (pc = "latency" /\ wpc \in {"fetch", "body"}) =>
          /\ Len(samples) = li
          /\ sampleTags = [k \in 1..li |-> <<calls, k - 1>>]
    /\ latency # Null =>
          /\ Len(latency.samples) = 8
          /\ \E c \in 1..(retries + 1) :
                latencyTags = [k \in 1..8 |-> <<c, k - 1>>]
    /\ pc = "returned" => result.latency = latency /\ latency # Null

C14_Witness ==
    /\ pc = "returned"
    /\ Len(result.latency.samples) = 8
    /\ latencyTags[1] = <<3, 0>>
    /\ latencyTags[8] = <<3, 7>>

\* C16: the sized probes run in the order of the configured sizes, 1 MiB,
\* 5 MiB, 10 MiB for download then 1 MiB, 2 MiB for upload: the probe that
\* runs is for the size that follows the samples already produced, and a
\* successful run holds exactly one sample per size whatever was retried.
C16_SizesInOrder ==
    /\ DOWNLOAD_SIZES = <<1 * 1048576, 5 * 1048576, 10 * 1048576>>
    /\ UPLOAD_SIZES = <<1 * 1048576, 2 * 1048576>>
    /\ pc = "download" =>
          /\ Len(downloadSamples) = i
          /\ SizesOf(downloadSamples) = SubSeq(DOWNLOAD_SIZES, 1, i)
          /\ probeSize = DOWNLOAD_SIZES[i + 1]
    /\ pc = "upload" =>
          /\ SizesOf(downloadSamples) = DOWNLOAD_SIZES
          /\ Len(uploadSamples) = i
          /\ SizesOf(uploadSamples) = SubSeq(UPLOAD_SIZES, 1, i)
          /\ probeSize = UPLOAD_SIZES[i + 1]
    /\ pc = "returned" =>
          /\ SizesOf(downloadSamples) = DOWNLOAD_SIZES
          /\ enableUpload => SizesOf(uploadSamples) = UPLOAD_SIZES

C16_Witness ==
    /\ pc = "upload"
    /\ i = 1
    /\ attempt = 2
    /\ probeSize = 2097152
    /\ SizesOf(uploadSamples) = <<1048576>>

\* C17: in a successful run downloadMbps is the unweighted arithmetic mean
\* of the mbps of the three download samples and, with upload enabled,
\* uploadMbps is the unweighted mean of the two upload samples; the
\* average of an empty sample list is 0.
C17_UnweightedMean ==
    /\ averageThroughput(<<>>) = RatInt(0)
    /\ pc = "returned" =>
          /\ Len(downloadSamples) = 3
          /\ RatMul(result.downloadMbps, RatInt(3))
                = RatAdd(RatAdd(downloadSamples[1].mbps, downloadSamples[2].mbps),
                         downloadSamples[3].mbps)
          /\ enableUpload =>
                /\ Len(uploadSamples) = 2
                /\ RatMul(result.uploadMbps, RatInt(2))
                      = RatAdd(uploadSamples[1].mbps, uploadSamples[2].mbps)

\* the end-to-end scenario: 1 MiB in 0.1 s, 5 MiB in 0.4 s, 10 MiB in 0.8 s
C17_Witness ==
    /\ pc = "returned"
    /\ ~enableUpload
    /\ [k \in 1..3 |-> downloadSamples[k].durationSeconds]
          = <<Rat(1, 10), Rat(4, 10), Rat(8, 10)>>
    /\ result.downloadMbps = Rat(917504, 9375)

\* C19 as stated: the backoff before retry number n (n = 1 for the first
\* retry) lasts 300 ms * (n + 1).
C19_BackoffFromOne ==
    wpc = "sleep" => timer = 300 * (sleeps + 1)

\* C19 as amended: the backoff before retry number n (n = 1 for the first
\* retry) lasts 300 ms * n, that is 300 ms * (attempt + 1) with attempt
\* the 0-based index of the attempt that has just failed: 300 ms before
\* the first retry, 600 ms before the second.
C19_BackoffFromZero ==
    wpc = "sleep" =>
        /\ attempt < retries
        /\ sleeps = attempt + 1
        /\ fails = attempt + 1
        /\ timer = 300 * sleeps

C19_Witness ==
    /\ wpc = "sleep"
    /\ attempt = 1
    /\ timer = 600

\* C20: within one run at most one network request is in flight, it is
\* the request of the probe the run is suspended on, and no request is in
\* flight while a backoff timer is pending.
C20_OneRequestInFlight ==
    /\ Cardinality(inflight) <= 1
    /\ wpc \in {"fetch", "body"} => inflight = {RequestOf(Cur)} /\ timer = 0
    /\ wpc = "sleep" => inflight = {} /\ timer > 0
    /\ wpc = "none" => inflight = {} /\ timer = 0

C20_Witness ==
    /\ pc = "download"
    /\ i = 2
    /\ wpc = "body"
    /\ attempt = 1
    /\ opNo = 4
    /\ inflight = {<<4, 2, 8>>}

AllEqual(list) == \A j, k \in 1..Len(list) : list[j] = list[k]

C18_LookupIsolated ==
    /\ [](ispPc # "rejected")
    /\ []((ispPc = "resolved" /\ ispCause \in {"network", "http", "parse"})
            => isp = "undefined")
    /\ [][(ispVars' # ispVars) => UNCHANGED <<runVars, aborted, config>>]_vars

C18_Witness ==
    /\ ispPc = "resolved"
    /\ ispCause = "parse"
    /\ isp = "undefined"
    /\ pc = "returned"

\* the runs of the component whose runSpeedTest call has neither returned
\* nor thrown
RunsInFlight == {k \in DOMAIN runs : runs[k].s.pc \in Stages}

\* C11: at most one runSpeedTest call started by the component is in
\* flight at any time.
C11_OneRunInFlight == Cardinality(RunsInFlight) <= 1

\* run k ends in this step
RunThrows(k) == runs[k].s.pc \in Stages /\ runs'[k].s.pc = "thrown"

\* C12: when a run whose signal was aborted ends, the component is left
\* with no error message, phase idle and progress 0.
C12_CancelledRunSilent ==
    [][\A k \in DOMAIN runs :
          (runs[k].aborted /\ RunThrows(k))
              => (uiError' = "null" /\ uiPhase' = "idle" /\ uiProgress' = 0)]_vars

\* C13: when a run whose signal was not aborted throws, whatever its
\* stage, the component shows the phase error (not completed) with the
\* error message.
C13_FailureShowsError ==
    [][\A k \in DOMAIN runs :
          (~runs[k].aborted /\ RunThrows(k))
              => (uiPhase' = "error" /\ uiError' = "message")]_vars

C13_Witness ==
    /\ Len(runs) = 2
    /\ ~runs[1].aborted /\ ~runs[2].aborted
    /\ runs[1].s.pc = "thrown" /\ runs[1].s.thrown.stage = "download"
    /\ runs[2].s.pc = "thrown" /\ runs[2].s.thrown.stage = "upload"
    /\ runs[2].s.thrown.kind = "quota"
    /\ uiPhase = "error"
    /\ uiError = "message"

\* the number of onProgress calls made with the given phase
CountPhase(phase) ==
    Cardinality({k \in DOMAIN log : log[k].phase = phase})

\* C21: at every point of a run the onProgress calls with phase download
\* (upload) are as many as the download (upload) sizes whose probe has
\* succeeded, and the calls made so far are one for the start, one for the
\* latency measurement once it succeeded, one per succeeded size and one
\* for the completion: failed and retried attempts add none.
C21_ProgressAfterSubStep ==
    /\ CountPhase("download") = Len(downloadSamples)
    /\ CountPhase("upload") = Len(uploadSamples)
    /\ pc # "idle" =>
          Len(log) = 1 + (IF latency # Null THEN 1 ELSE 0)
                       + Len(downloadSamples) + Len(uploadSamples)
                       + (IF pc = "returned" THEN 1 ELSE 0)

C21_Witness ==
    /\ pc = "upload"
    /\ wpc = "sleep"
    /\ attempt = 1
    /\ fails = 2
    /\ Len(uploadSamples) = 1
    /\ CountPhase("upload") = 1
    /\ CountPhase("download") = 3

\* C22: when a run fails, the error runSpeedTest rejects with is the error
\* raised by the last invocation of the probe that exhausted its retries:
\* same kind, same stage and size, raised by invocation retries + 1, and
\* it is the error the retry wrapper held last.
C22_ErrorUnmodified ==
    pc = "thrown" =>
        /\ thrown = lastError
        /\ thrown.kind \in {"http", "network", "abort", "quota"}
        /\ thrown.stage \in Stages
        /\ thrown.stage = lastCall.stage
        /\ thrown.index = i
        /\ thrown.call = calls
        /\ calls = retries + 1

C22_Witness ==
    /\ pc = "thrown"
    /\ retries >= 2
    /\ thrown.stage = "download"
    /\ thrown.index = 1
    /\ thrown.kind = "network"
    /\ thrown.call = retries + 1
    /\ ~aborted

\* C23: a run that returned has called onProgress with phase completed
\* exactly once, as its last call; a run that has not returned (running,
\* failed, cancelled) has never called it.
C23_CompletedOnce ==
    /\ pc = "returned" =>
          /\ CountPhase("completed") = 1
          /\ log[Len(log)] = [value |-> RatInt(100), phase |-> "completed"]
    /\ pc # "returned" => CountPhase("completed") = 0
    /\ abortedDuring \in Stages => CountPhase("completed") = 0

C23_Witness ==
    /\ pc = "returned"
    /\ enableUpload
    /\ Len(log) = 8
    /\ log[8].phase = "completed"
    /\ CountPhase("completed") = 1

\* the runs of the component that are in flight and whose controller was
\* not aborted
LiveRuns == {k \in RunsInFlight : ~runs[k].aborted}

\* C24: for every run that is in flight and not cancelled, isRunning is
\* true and abortControllerRef holds the controller of that run, so that
\* cancelTest aborts it.
C24_ControllerOfLiveRun ==
    \A k \in LiveRuns : isRunning /\ abortControllerRef = k

\* C25: while a run that was not cancelled is in flight, the phase shown
\* is latency, download or upload, and a step of another run leaves the
\* phase and the progress shown as they are.
C25_PhaseOfLiveRun ==
    /\ [](\A k \in LiveRuns : uiPhase \in Stages)
    /\ [][\A k \in LiveRuns :
             \A j \in DOMAIN runs \ {k} :
                 (runs'[j] # runs[j] /\ k \in DOMAIN runs' /\ runs'[k] = runs[k])
                     => (uiPhase' = uiPhase /\ uiProgress' = uiProgress)]_vars

\* C26: a run that has started eventually returns or throws, it makes at
\* most six withRetry calls, and each of them invokes its operation at most
\* retries + 1 times.
C26_RunTerminates ==
    /\ (pc \in Stages) ~> (pc \in {"returned", "thrown"})
    /\ [](/\ opNo <= 1 + Len(DOWNLOAD_SIZES) + Len(UPLOAD_SIZES)
           /\ opNo <= 6
           /\ calls <= retries + 1
           /\ lastCall # NoCall => lastCall.calls <= retries + 1)

C26_Witness ==
    /\ pc = "returned"
    /\ opNo = 6
    /\ retries >= 2
    /\ calls = retries + 1
    /\ lastCall.fails = retries
====
